---- MODULE Spec2Model ----
(***************************************************************************)
(* join-notes (note_concatenator v2.1.0): file discovery, extension and    *)
(* ignore matching, and the parallel content reader, as state machines.    *)
(*                                                                         *)
(* A string is a sequence of one-character strings, a path is a sequence   *)
(* of names (pathlib's parts; an absolute path starts with the part "/").  *)
(***************************************************************************)
EXTENDS Integers, Sequences, FiniteSets, TLC

VARIABLES
    file_name,      \* _matches_extension: the name of the file_path argument
    extensions,     \* _matches_extension: the extensions argument
    match,          \* _matches_extension: [called, result]
    candidate,      \* should_ignore: the file_path argument, relative to the root
    ignored,        \* should_ignore: [called, result]
    path_relativo,  \* esta_ignorado: the path_relativo argument
    ignorados,      \* esta_ignorado: the ignorados argument, a set of strings
    legacy,         \* esta_ignorado: [called, result]
    notes_ignore,   \* cargar_ignorados: the .notes-ignore file, [exists, lines]
    cargados,       \* cargar_ignorados: [called, result]
    raw,            \* _read_file_content: the bytes of the file
    decoded,        \* _read_file_content: [called, tried, content]
    profiles,       \* project.profiles: the stored profiles, in dict order
    configured,     \* the profiles as the configuration file gave them
    output_on_disk, \* what the output file holds ("" when there is none)
    executions,     \* the calls of execute made so far and how each ended
    tree,           \* the regular files below the search root (relative paths)
    listing,        \* the order in which each directory lists its entries
    root_kind,      \* what the profile's pattern path is: "missing", "file", "dir"
    fail_at,        \* the entry whose examination raises OSError (<<>>: none)
    profile,        \* ProjectProfile: [pattern, extensions, not_include]
    global_exclude, \* GlobalExcludeConfig: [folders, files]
    pc,             \* discover_files: "idle" or "scanning"
    pending,        \* the entries directory.rglob('*') has still to yield
    files,          \* _find_files_in_directory: the local list files
    results,        \* the lists discover_files has returned, one per call
    raised,         \* the exceptions calls of discover_files ended with
    ignore_calls,   \* the file paths should_ignore has been invoked with
    file_paths,     \* read_files_parallel: the file_paths argument
    base_path,      \* read_files_parallel: the base_path argument
    max_workers,    \* read_files_parallel: the max_workers argument
    max_file_size_bytes, \* FastFileContentReader.max_file_size_bytes
    disk,           \* what each file on disk is: [kind, size, text]
    rpc,            \* read_files_parallel: where the calling thread is
    tasks,          \* the futures, in submission order: [state, outcome]
    collected,      \* the futures as_completed has yielded so far
    file_infos,     \* read_files_parallel: the local list file_infos
    returned        \* the list read_files_parallel returned

mvars == <<file_name, extensions, match>>
ivars == <<candidate, ignored>>
lvars == <<path_relativo, ignorados, legacy, notes_ignore, cargados>>
cvars == <<raw, decoded>>
xvars == <<profiles, configured, output_on_disk, executions>>
envvars == <<tree, listing, root_kind, fail_at, profile, global_exclude>>
dvars == <<pc, pending, files, results, raised, ignore_calls>>
rargs == <<file_paths, base_path, max_workers, max_file_size_bytes, disk>>
rvars == <<rpc, tasks, collected, file_infos, returned>>
vars == <<mvars, ivars, lvars, cvars, xvars, envvars, dvars, rargs, rvars>>

----------------------------------------------------------------------------
(* Characters and strings                                                  *)

UpperChars == <<"A", "B", "C", "D", "E", "F", "G", "H", "I", "J", "K", "L", "M", "N", "O", "P", "Q", "R", "S", "T", "U", "V", "W", "X", "Y", "Z">>
LowerChars == <<"a", "b", "c", "d", "e", "f", "g", "h", "i", "j", "k", "l", "m", "n", "o", "p", "q", "r", "s", "t", "u", "v", "w", "x", "y", "z">>

\* The characters of the model in code-point order (str comparison order).
CodePointOrder == <<"-", ".", "/", "0", "1", "2", "3", "4", "5", "6", "7", "8", "9", "A", "B", "C", "D", "E", "F", "G", "H", "I", "J", "K", "L", "M", "N", "O", "P", "Q", "R", "S", "T", "U", "V", "W", "X", "Y", "Z", "_", "a", "b", "c", "d", "e", "f", "g", "h", "i", "j", "k", "l", "m", "n", "o", "p", "q", "r", "s", "t", "u", "v", "w", "x", "y", "z">>

\* str.lower() on one character
LowerChar(c) ==
    IF \E i \in DOMAIN UpperChars : UpperChars[i] = c
    THEN LowerChars[CHOOSE i \in DOMAIN UpperChars : UpperChars[i] = c]
    ELSE c

\* str.lower()
Lower(s) == [i \in DOMAIN s |-> LowerChar(s[i])]

\* str.startswith(prefix)
StartsWith(s, prefix) ==
    /\ Len(prefix) <= Len(s)
    /\ \A i \in DOMAIN prefix : s[i] = prefix[i]

\* str.lstrip('.')
RECURSIVE LStripDots(_)
LStripDots(s) ==
    IF s # <<>> /\ Head(s) = "." THEN LStripDots(Tail(s)) ELSE s

\* str.rfind('.'), 1-based; 0 when there is no dot
RFindDot(s) ==
    IF \E i \in DOMAIN s : s[i] = "."
    THEN CHOOSE i \in DOMAIN s : s[i] = "." /\ \A j \in DOMAIN s : s[j] = "." => j <= i
    ELSE 0

\* PurePath.suffix: the part of the name from its last dot, unless the dot
\* is the first or the last character of the name
Suffix(name) ==
    LET i == RFindDot(name)
    IN  IF 1 < i /\ i < Len(name) THEN SubSeq(name, i, Len(name)) ELSE <<>>

----------------------------------------------------------------------------
(* EnhancedFileDiscoveryEngine._matches_extension                          *)

\* The same test with the suffix and the name compared as written (no .lower()).
_matches_extension_case_sensitive(name, exts) ==
    LET file_ext == Suffix(name)
    IN  \/ file_ext = <<>> /\ \E i \in DOMAIN exts : exts[i] = <<>>
        \/ \E i \in DOMAIN exts :
              LET ext_lower == Lower(exts[i])
              IN  \/ file_ext = ext_lower
                  \/ /\ StartsWith(ext_lower, <<".">>)
                     /\ StartsWith(name, LStripDots(ext_lower))

\* An empty extension list accepts every file.
_matches_extension_empty_is_all(name, exts) ==
    LET file_ext == Lower(Suffix(name))
        lower_name == Lower(name)
    IN  \/ exts = <<>>
        \/ file_ext = <<>> /\ \E i \in DOMAIN exts : exts[i] = <<>>
        \/ \E i \in DOMAIN exts :
              LET ext_lower == Lower(exts[i])
              IN  \/ file_ext = ext_lower
                  \/ /\ StartsWith(ext_lower, <<".">>)
                     /\ StartsWith(lower_name, LStripDots(ext_lower))

_matches_extension(name, exts) ==
    LET file_ext == Lower(Suffix(name))
        lower_name == Lower(name)
    IN  \/ file_ext = <<>> /\ \E i \in DOMAIN exts : exts[i] = <<>>
        \/ \E i \in DOMAIN exts :
              LET ext_lower == Lower(exts[i])
              IN  \/ file_ext = ext_lower
                  \/ /\ StartsWith(ext_lower, <<".">>)
                     /\ StartsWith(lower_name, LStripDots(ext_lower))

----------------------------------------------------------------------------
(* Paths and path strings                                                  *)

Slash == <<"/">>

\* str(path) of a relative path: its parts joined with "/"
RECURSIVE JoinParts(_)
JoinParts(parts) ==
    IF parts = <<>> THEN <<>>
    ELSE IF Len(parts) = 1 THEN parts[1]
    ELSE parts[1] \o Slash \o JoinParts(Tail(parts))

\* str.split('/')
RECURSIVE SplitSlash(_)
SplitSlash(s) ==
    IF \E i \in DOMAIN s : s[i] = "/"
    THEN LET i == CHOOSE k \in DOMAIN s : s[k] = "/" /\ \A j \in 1..(k - 1) : s[j] # "/"
         IN  <<SubSeq(s, 1, i - 1)>> \o SplitSlash(SubSeq(s, i + 1, Len(s)))
    ELSE <<s>>

\* os.path.basename
Basename(s) ==
    LET parts == SplitSlash(s) IN parts[Len(parts)]

\* sub in s
Contains(s, sub) ==
    \E k \in 0..(Len(s) - Len(sub)) : SubSeq(s, k + 1, k + Len(sub)) = sub

\* PurePath.relative_to(other) succeeds exactly when other's parts are a
\* prefix of the path's parts; otherwise it raises ValueError
IsRelativeTo(path, other) ==
    /\ Len(other) <= Len(path)
    /\ SubSeq(path, 1, Len(other)) = other

RelativeTo(path, other) == SubSeq(path, Len(other) + 1, Len(path))

\* str comparison of Python: by code point, a proper prefix first
CodePoint(c) == CHOOSE i \in DOMAIN CodePointOrder : CodePointOrder[i] = c

RECURSIVE StrLess(_, _)
StrLess(a, b) ==
    IF b = <<>> THEN FALSE
    ELSE IF a = <<>> THEN TRUE
    ELSE IF Head(a) = Head(b) THEN StrLess(Tail(a), Tail(b))
    ELSE CodePoint(Head(a)) < CodePoint(Head(b))

StrLessEq(a, b) == a = b \/ StrLess(a, b)

----------------------------------------------------------------------------
(* EnhancedIgnorePatternEngine                                             *)

\* fnmatch.fnmatch on POSIX for patterns made of literals, '*' and '?'
RECURSIVE FnMatch(_, _)
FnMatch(s, pat) ==
    IF pat = <<>> THEN s = <<>>
    ELSE IF Head(pat) = "*"
         THEN \E k \in 0..Len(s) : FnMatch(SubSeq(s, k + 1, Len(s)), Tail(pat))
    ELSE IF Head(pat) = "?"
         THEN s # <<>> /\ FnMatch(Tail(s), Tail(pat))
    ELSE s # <<>> /\ Head(s) = Head(pat) /\ FnMatch(Tail(s), Tail(pat))

\* _matches_pattern
_matches_pattern(path_str, pattern) ==
    IF pattern # <<>> /\ pattern[Len(pattern)] = "/"
    THEN LET pattern_clean == SubSeq(pattern, 1, Len(pattern) - 1)
             parts == SplitSlash(path_str)
         IN  \E i \in DOMAIN parts :
                 parts[i] = pattern_clean \/ FnMatch(parts[i], pattern_clean)
    ELSE IF Contains(pattern, <<"*", "*">>)
         THEN FnMatch(path_str, pattern)
    ELSE IF Contains(pattern, <<"*">>)
         THEN FnMatch(Basename(path_str), pattern)
    ELSE Contains(path_str, pattern)

\* Only the first folder pattern of the list is tried.
_matches_first_folder_pattern(relative_path, exclude) ==
    /\ exclude.folders # <<>>
    /\ _matches_pattern(JoinParts(relative_path), exclude.folders[1])

\* _matches_global_folder_patterns
_matches_global_folder_patterns(relative_path, exclude) ==
    \E i \in DOMAIN exclude.folders :
        _matches_pattern(JoinParts(relative_path), exclude.folders[i])

\* _matches_global_file_patterns
_matches_global_file_patterns(relative_path, exclude) ==
    \E i \in DOMAIN exclude.files :
        _matches_pattern(JoinParts(relative_path), exclude.files[i])

\* _matches_profile_exclusions
_matches_profile_exclusions(path, profile_excludes) ==
    \E i \in DOMAIN profile_excludes : IsRelativeTo(path, profile_excludes[i])

\* should_ignore
should_ignore(path, base, exclude, profile_excludes) ==
    LET relative_path == RelativeTo(path, base)
    IN  \/ _matches_global_folder_patterns(relative_path, exclude)
        \/ _matches_global_file_patterns(relative_path, exclude)
        \/ _matches_profile_exclusions(path, profile_excludes)

----------------------------------------------------------------------------
(* File names and extension lists the matcher is applied to                *)

DotEnv == <<".", "e", "n", "v">>
DotEnvLocal == <<".", "e", "n", "v", ".", "l", "o", "c", "a", "l">>
DotEnvProduction == <<".", "e", "n", "v", ".", "p", "r", "o", "d", "u", "c", "t", "i", "o", "n">>
EnvironmentTxt == <<"e", "n", "v", "i", "r", "o", "n", "m", "e", "n", "t", ".", "t", "x", "t">>
NotesUpperMD == <<"n", "o", "t", "e", "s", ".", "M", "D">>
NotesMixedMd == <<"N", "o", "t", "e", "s", ".", "M", "d">>
NotesMd == <<"n", "o", "t", "e", "s", ".", "m", "d">>
NotesMdx == <<"n", "o", "t", "e", "s", ".", "m", "d", "x">>
NotesUpperMDX == <<"N", "O", "T", "E", "S", ".", "M", "D", "X">>
PyprojectToml == <<"p", "y", "p", "r", "o", "j", "e", "c", "t", ".", "t", "o", "m", "l">>
MdnotesTxt == <<"m", "d", "n", "o", "t", "e", "s", ".", "t", "x", "t">>
Readme == <<"R", "E", "A", "D", "M", "E">>
MainPy == <<"m", "a", "i", "n", ".", "p", "y">>

ExtEnv == <<".", "e", "n", "v">>
ExtMd == <<".", "m", "d">>
ExtUpperMd == <<".", "M", "D">>
ExtPy == <<".", "p", "y">>
ExtNone == <<>>

FileNames ==
    { DotEnv, DotEnvLocal, DotEnvProduction, EnvironmentTxt, NotesUpperMD,
      NotesMixedMd, NotesMd, NotesMdx, NotesUpperMDX, PyprojectToml,
      MdnotesTxt, Readme, MainPy }

ExtensionLists ==
    { <<ExtEnv>>, <<ExtMd>>, <<ExtUpperMd>>, <<ExtPy>>, <<ExtMd, ExtPy>>,
      <<ExtNone>>, <<>> }

----------------------------------------------------------------------------
(* The directory tree and the configuration discovery runs on              *)

NameW == <<"w">>
NameN == <<"n">>
NameSub == <<"s", "u", "b">>
NameGit == <<".", "g", "i", "t">>
NameAMd == <<"a", ".", "m", "d">>
NameZMd == <<"z", ".", "m", "d">>
NameXMd == <<"x", ".", "m", "d">>
NameCMd == <<"c", ".", "m", "d">>
NameDCsv == <<"d", ".", "c", "s", "v">>
ExtCsv == <<".", "c", "s", "v">>

\* debe_ignorar_carpeta: the built-in set of directory names never wanted
carpetas_ignoradas ==
    { <<".", "v", "e", "n", "v">>,
      <<"_", "_", "p", "y", "c", "a", "c", "h", "e", "_", "_">>,
      NameGit,
      <<".", "p", "y", "t", "e", "s", "t", "_", "c", "a", "c", "h", "e">>,
      <<"n", "o", "d", "e", "_", "m", "o", "d", "u", "l", "e", "s">>,
      <<".", "i", "d", "e", "a">>,
      <<".", "v", "s", "c", "o", "d", "e">>,
      <<"v", "e", "n", "v">>,
      <<"e", "n", "v">>,
      <<".", "m", "y", "p", "y", "_", "c", "a", "c", "h", "e">> }

\* GlobalExcludeConfig defaults
DefaultFolders ==
    << <<".", "v", "e", "n", "v">>,
       <<"_", "_", "p", "y", "c", "a", "c", "h", "e", "_", "_", "/">>,
       <<"b", "u", "i", "l", "d", "/">>,
       <<"*", "*", "/", "v", "e", "n", "d", "o", "r", "/", "*", "*">> >>
DefaultFiles ==
    << <<"*", "*", "/", "*", ".", "m", "i", "n", ".", "j", "s">>,
       <<"*", "*", "/", "*", ".", "c", "s", "v">>,
       <<"*", "*", "/", "*", ".", "p", "y", "c">> >>
PatGitDir == <<".", "g", "i", "t", "/">>

GlobalExcludes ==
    { [folders |-> DefaultFolders, files |-> DefaultFiles],
      [folders |-> <<PatGitDir>>, files |-> <<>>] }

\* The process's working directory, the search root written as an absolute
\* and as a relative pattern, and the absolute path either one denotes
Cwd == <<Slash, NameW>>
RootAbs == <<Slash, NameW, NameN>>
RootRel == <<NameN>>
Absolute(path) == IF path # <<>> /\ path[1] = Slash THEN path ELSE Cwd \o path

Profiles ==
    { [pattern |-> pat, extensions |-> exts, not_include |-> ni] :
        pat \in {RootAbs, RootRel},
        exts \in {<<>>, <<ExtMd>>, <<ExtMd, ExtCsv>>},
        ni \in {<<>>, <<RootAbs \o <<NameSub>>, RootAbs \o <<NameAMd>>>>} }

\* The files a tree may hold, as paths relative to the search root
CandidateFiles ==
    { <<NameAMd>>, <<NameZMd>>, <<NameDCsv>>, <<NameGit, NameXMd>>, <<NameSub, NameCMd>> }

MaxFiles == 3
MaxRuns == 2

Trees == { t \in SUBSET CandidateFiles : Cardinality(t) <= MaxFiles }

\* The directories of a tree (the root is <<>>) and the entries of one
Dirs(t) == UNION { { SubSeq(p, 1, k) : k \in 0..(Len(p) - 1) } : p \in t }
ChildNames(t, dir) ==
    { p[Len(dir) + 1] : p \in { q \in t : Len(q) > Len(dir) /\ SubSeq(q, 1, Len(dir)) = dir } }

Perms(S) ==
    { s \in [1..Cardinality(S) -> S] : \A i, j \in DOMAIN s : s[i] = s[j] => i = j }

\* Every order in which the directories of a tree can list their entries
RECURSIVE ListingsOver(_, _)
ListingsOver(D, t) ==
    IF D = {} THEN { <<>> }
    ELSE LET d == CHOOSE x \in D : TRUE
         IN  { (d :> perm) @@ rest :
                 perm \in Perms(ChildNames(t, d)), rest \in ListingsOver(D \ {d}, t) }

Listings(t) == ListingsOver({ d \in Dirs(t) : ChildNames(t, d) # {} }, t)

\* Every entry of a tree: its files and its directories below the root
Entries(t) == t \cup (Dirs(t) \ {<<>>})

----------------------------------------------------------------------------
(* The state of the parts a specification does not exercise               *)

DefaultMaxFileSizeBytes == 5242880

MatchUnused ==
    /\ file_name = <<>>
    /\ extensions = <<>>
    /\ match = [called |-> FALSE, result |-> FALSE]

IgnoreUnused ==
    /\ candidate = <<>>
    /\ ignored = [called |-> FALSE, result |-> FALSE]

LegacyUnused ==
    /\ path_relativo = <<>>
    /\ ignorados = {}
    /\ legacy = [called |-> FALSE, result |-> FALSE]
    /\ notes_ignore = [exists |-> FALSE, lines |-> <<>>]
    /\ cargados = [called |-> FALSE, result |-> {}]

DecodeUnused ==
    /\ raw = <<>>
    /\ decoded = [called |-> FALSE, tried |-> <<>>, content |-> <<>>]

ExecuteUnused ==
    /\ profiles = <<>>
    /\ configured = <<>>
    /\ output_on_disk = ""
    /\ executions = <<>>

DiscoveryUnused ==
    /\ tree = {}
    /\ listing = <<>>
    /\ root_kind = "missing"
    /\ fail_at = <<>>
    /\ profile = [pattern |-> RootAbs, extensions |-> <<>>, not_include |-> <<>>]
    /\ global_exclude = [folders |-> <<>>, files |-> <<>>]
    /\ pc = "idle"
    /\ pending = <<>>
    /\ files = <<>>
    /\ results = <<>>
    /\ raised = <<>>
    /\ ignore_calls = {}

ReaderUnused ==
    /\ file_paths = <<>>
    /\ base_path = RootAbs
    /\ max_workers = 1
    /\ max_file_size_bytes = DefaultMaxFileSizeBytes
    /\ disk = <<>>
    /\ rpc = "returned"
    /\ tasks = <<>>
    /\ collected = {}
    /\ file_infos = <<>>
    /\ returned = <<>>

----------------------------------------------------------------------------
(* EnhancedFileDiscoveryEngine                                             *)

\* Path.rglob('*'): the directories in pre-order, each followed by all of
\* its entries in the order the directory lists them
RECURSIVE RGlobFrom(_, _, _), RGlobSubdirs(_, _, _, _)
RGlobFrom(t, order, dir) ==
    [i \in DOMAIN order[dir] |-> dir \o <<order[dir][i]>>]
        \o RGlobSubdirs(t, order, dir, 1)
RGlobSubdirs(t, order, dir, i) ==
    IF i > Len(order[dir]) THEN <<>>
    ELSE LET child == dir \o <<order[dir][i]>>
         IN  (IF child \in t THEN <<>> ELSE RGlobFrom(t, order, child))
                 \o RGlobSubdirs(t, order, dir, i + 1)

RGlob(t, order) == IF t = {} THEN <<>> ELSE RGlobFrom(t, order, <<>>)

\* discovered_files = [] ... discovered_files.extend(files)
\* The list kept from one call to the next instead of being created anew.
discovered_files_kept(earlier, found) ==
    (IF earlier = <<>> THEN <<>> ELSE earlier[Len(earlier)]) \o found

discovered_files(earlier, found) == found

\* Path.exists() and Path.is_dir() stat the path: the errno of the failure,
\* or "" when stat succeeds
StatErrno(kind) ==
    IF kind = "missing" THEN "ENOENT"
    ELSE IF kind = "denied" THEN "EACCES"
    ELSE ""

\* No errno is one that exists() answers False for.
_ignore_error_none(errno) == FALSE

\* pathlib: exists() and is_dir() answer False for these errors of stat and
\* let every other OSError through
_ignore_error(errno) == errno \in {"ENOENT", "ENOTDIR", "EBADF", "ELOOP"}

\* discover_files up to the scan: a missing root and a root that is no
\* directory return the empty list at once; nothing catches what exists()
\* raises
discover_files ==
    /\ pc = "idle"
    /\ Len(results) + Len(raised) < MaxRuns
    /\ LET errno == StatErrno(root_kind)
       IN  IF errno # "" /\ ~_ignore_error(errno)
           THEN /\ raised' = Append(raised, errno)
                /\ UNCHANGED <<pc, pending, files, results>>
           ELSE IF errno # ""
           THEN \* if not pattern_path.exists(): return []
                /\ results' = Append(results, <<>>)
                /\ UNCHANGED <<pc, pending, files, raised>>
           ELSE IF root_kind = "dir"
           THEN /\ pc' = "scanning"
                /\ pending' = RGlob(tree, listing)
                /\ files' = <<>>
                /\ UNCHANGED <<results, raised>>
           ELSE \* is_dir() is False: return discovered_files, still empty
                /\ results' = Append(results, discovered_files(results, <<>>))
                /\ UNCHANGED <<pc, pending, files, raised>>
    /\ UNCHANGED <<ignore_calls, mvars, ivars, lvars, cvars, xvars, envvars, rargs, rvars>>

\* should_ignore is consulted for every regular file, before its extension
\* is looked at.
should_ignore_invoked_for_every_file(is_file, extension_matches) == is_file

\* The loop body reaches ignore_engine.should_ignore only past the two
\* 'continue' statements: for a regular file whose extension matched
should_ignore_invoked(is_file, extension_matches) == is_file /\ extension_matches

\* _find_files_in_directory: one iteration of the loop over rglob('*')
_find_files_in_directory ==
    /\ pc = "scanning"
    /\ pending # <<>>
    /\ LET entry == Head(pending)
           file_path == profile.pattern \o entry
       IN  IF entry = fail_at
           THEN \* the exception leaves the loop; except: print a warning
                /\ pending' = <<>>
                /\ UNCHANGED <<files, ignore_calls>>
           ELSE /\ pending' = Tail(pending)
                /\ ignore_calls' =
                      IF should_ignore_invoked(
                             entry \in tree,
                             _matches_extension(entry[Len(entry)], profile.extensions))
                      THEN ignore_calls \cup {file_path}
                      ELSE ignore_calls
                /\ IF /\ entry \in tree
                      /\ _matches_extension(entry[Len(entry)], profile.extensions)
                      /\ ~should_ignore(file_path, profile.pattern, global_exclude,
                                       profile.not_include)
                   THEN files' = Append(files, file_path)
                   ELSE UNCHANGED files
    /\ UNCHANGED <<pc, results, raised, mvars, ivars, lvars, cvars, xvars, envvars, rargs, rvars>>

\* _find_files_in_directory returns files; discover_files returns them
ReturnFiles ==
    /\ pc = "scanning"
    /\ pending = <<>>
    /\ results' = Append(results, discovered_files(results, files))
    /\ pc' = "idle"
    /\ UNCHANGED <<pending, files, raised, ignore_calls, mvars, ivars, lvars, cvars, xvars, envvars, rargs, rvars>>

Init ==
    /\ tree \in Trees
    /\ listing \in Listings(tree)
    /\ root_kind \in {"missing", "denied", "file", "dir"}
    /\ root_kind # "dir" => tree = {}
    /\ fail_at \in {<<>>} \cup Entries(tree)
    /\ profile \in Profiles
    /\ global_exclude \in GlobalExcludes
    /\ pc = "idle"
    /\ pending = <<>>
    /\ files = <<>>
    /\ results = <<>>
    /\ raised = <<>>
    /\ ignore_calls = {}
    /\ MatchUnused
    /\ IgnoreUnused
    /\ LegacyUnused
    /\ ReaderUnused
    /\ DecodeUnused
    /\ ExecuteUnused

Next == discover_files \/ _find_files_in_directory \/ ReturnFiles

Spec == Init /\ [][Next]_vars

----------------------------------------------------------------------------
(* FastFileContentReader                                                   *)

\* The content of a record: the text read, or one of the placeholders
TextContent(text) == [kind |-> "text", text |-> text]
TooLargeContent == [kind |-> "too_large", text |-> "[File too large]"]
ErrorContent == [kind |-> "error", text |-> "[Error reading file]"]

NoInfo == [relative_path |-> <<>>, content |-> TextContent(""), name |-> <<>>, size_bytes |-> 0]
FileInfo(relative_path, content, name, size_bytes) ==
    [relative_path |-> relative_path, content |-> content, name |-> name,
     size_bytes |-> size_bytes]

\* What a call of read_file ends with: a FileInfo returned or an exception
\* raised, and whether _read_file_content opened the file
Returned(info, opened) == [raised |-> FALSE, info |-> info, opened |-> opened]
Raised(opened) == [raised |-> TRUE, info |-> NoInfo, opened |-> opened]

\* read_file with the size check left out: every file is opened.
read_file_no_ceiling(path, base, ceiling, file) ==
    LET statFails == file.kind = "gone"
        openFails == file.kind = "denied"
        opened == ~statFails
    IN  IF ~IsRelativeTo(path, base) THEN Raised(opened)
        ELSE IF statFails \/ openFails
             THEN Returned(FileInfo(JoinParts(RelativeTo(path, base)), ErrorContent,
                                    path[Len(path)], 0), opened)
        ELSE Returned(FileInfo(JoinParts(RelativeTo(path, base)), TextContent(file.text),
                               path[Len(path)], file.size), opened)

\* read_file: stat, the size check, _read_file_content, relative_to; the
\* handler of any exception computes relative_to again, outside any try
read_file(path, base, ceiling, file) ==
    LET statFails == file.kind = "gone"
        tooLarge == ~statFails /\ file.size > ceiling
        opened == ~statFails /\ ~tooLarge
        openFails == opened /\ file.kind = "denied"
    IN  IF ~IsRelativeTo(path, base)
        THEN \* ValueError in the try block, and again in the handler
             Raised(opened)
        ELSE IF statFails \/ openFails
             THEN Returned(FileInfo(JoinParts(RelativeTo(path, base)), ErrorContent,
                                    path[Len(path)], 0), opened)
        ELSE IF tooLarge
             THEN Returned(FileInfo(JoinParts(RelativeTo(path, base)), TooLargeContent,
                                    path[Len(path)], file.size), opened)
        ELSE Returned(FileInfo(JoinParts(RelativeTo(path, base)), TextContent(file.text),
                               path[Len(path)], file.size), opened)

\* sorted(file_infos, key=lambda x: x.relative_path): a stable sort, so the
\* place of a record is the number of records that do not go after it
SortedPlace(infos, i) ==
    Cardinality({ j \in DOMAIN infos :
        \/ StrLess(infos[j].relative_path, infos[i].relative_path)
        \/ (infos[j].relative_path = infos[i].relative_path /\ j <= i) })

\* The list returned as collected, without the sort.
NotSorted(infos) == infos

SortedByRelativePath(infos) ==
    IF infos = <<>> THEN <<>>
    ELSE [k \in 1..Len(infos) |->
             infos[CHOOSE i \in DOMAIN infos : SortedPlace(infos, i) = k]]

NoOutcome == Returned(NoInfo, FALSE)
TaskIn(state) == { i \in DOMAIN tasks : tasks[i].state = state }

\* if not file_paths: return file_infos
ReturnEmpty ==
    /\ rpc = "submitting"
    /\ file_paths = <<>>
    /\ returned' = <<>>
    /\ rpc' = "returned"
    /\ UNCHANGED <<tasks, collected, file_infos, rargs, mvars, ivars, lvars, cvars, xvars, envvars, dvars>>

\* executor.submit(self.read_file, file_path, project_name, base_path)
Submit ==
    /\ rpc = "submitting"
    /\ Len(tasks) < Len(file_paths)
    /\ tasks' = Append(tasks, [state |-> "queued", outcome |-> NoOutcome])
    /\ rpc' = IF Len(tasks) + 1 = Len(file_paths) THEN "collecting" ELSE "submitting"
    /\ UNCHANGED <<collected, file_infos, returned, rargs, mvars, ivars, lvars, cvars, xvars, envvars, dvars>>

\* A thread is started for every work item, whatever max_workers is.
Start_unbounded(i) ==
    /\ tasks[i].state = "queued"
    /\ \A j \in TaskIn("queued") : i <= j
    /\ tasks' = [tasks EXCEPT ![i].state = "running"]
    /\ UNCHANGED <<rpc, collected, file_infos, returned, rargs, mvars, ivars, lvars, cvars, xvars, envvars, dvars>>

\* A pool thread runs one work item and then exits instead of going back to
\* the queue.
Start_once_per_thread(i) ==
    /\ tasks[i].state = "queued"
    /\ \A j \in TaskIn("queued") : i <= j
    /\ Cardinality(TaskIn("running") \cup TaskIn("done")) < max_workers
    /\ tasks' = [tasks EXCEPT ![i].state = "running"]
    /\ UNCHANGED <<rpc, collected, file_infos, returned, rargs, mvars, ivars, lvars, cvars, xvars, envvars, dvars>>

\* A pool thread takes the oldest queued work item; the pool has at most
\* max_workers threads
Start(i) ==
    /\ tasks[i].state = "queued"
    /\ \A j \in TaskIn("queued") : i <= j
    /\ Cardinality(TaskIn("running")) < max_workers
    /\ tasks' = [tasks EXCEPT ![i].state = "running"]
    /\ UNCHANGED <<rpc, collected, file_infos, returned, rargs, mvars, ivars, lvars, cvars, xvars, envvars, dvars>>

\* The pool thread's call of read_file ends and sets the future
Finish(i) ==
    /\ tasks[i].state = "running"
    /\ tasks' = [tasks EXCEPT ![i] =
          [state |-> "done",
           outcome |-> read_file(file_paths[i], base_path, max_file_size_bytes,
                                disk[file_paths[i]])]]
    /\ UNCHANGED <<rpc, collected, file_infos, returned, rargs, mvars, ivars, lvars, cvars, xvars, envvars, dvars>>

\* for future in as_completed(future_to_file): append the result, or print
\* the exception and go on
Collect(i) ==
    /\ rpc = "collecting"
    /\ tasks[i].state = "done"
    /\ i \notin collected
    /\ collected' = collected \cup {i}
    /\ file_infos' = IF tasks[i].outcome.raised THEN file_infos
                     ELSE Append(file_infos, tasks[i].outcome.info)
    /\ UNCHANGED <<rpc, tasks, returned, rargs, mvars, ivars, lvars, cvars, xvars, envvars, dvars>>

\* The list is sorted and returned without waiting for the futures.
ReturnSorted_early ==
    /\ rpc = "collecting"
    /\ returned' = SortedByRelativePath(file_infos)
    /\ rpc' = "returned"
    /\ UNCHANGED <<tasks, collected, file_infos, rargs, mvars, ivars, lvars, cvars, xvars, envvars, dvars>>

\* return sorted(file_infos, key=lambda x: x.relative_path)
ReturnSorted ==
    /\ rpc = "collecting"
    /\ collected = DOMAIN tasks
    /\ returned' = SortedByRelativePath(file_infos)
    /\ rpc' = "returned"
    /\ UNCHANGED <<tasks, collected, file_infos, rargs, mvars, ivars, lvars, cvars, xvars, envvars, dvars>>

----------------------------------------------------------------------------
(* The files and arguments the reader is called with                       *)

NameOMd == <<"o", ".", "m", "d">>
BasePath == RootAbs
PathZ == RootAbs \o <<NameZMd>>
PathA == RootAbs \o <<NameAMd>>
PathC == RootAbs \o <<NameSub, NameCMd>>
PathOutside == Cwd \o <<NameOMd>>
ReadablePaths == {PathZ, PathA, PathC, PathOutside}

Hello == [kind |-> "ok", size |-> 5, text |-> "hello"]
Tiny == [kind |-> "ok", size |-> 1, text |-> "x"]
Gone == [kind |-> "gone", size |-> 0, text |-> ""]
Denied == [kind |-> "denied", size |-> 5, text |-> "hello"]

\* What each file may be on disk
Disks ==
    { (PathZ :> z) @@ (PathA :> a) @@ (PathC :> c) @@ (PathOutside :> o) :
        z \in {Tiny, Hello}, a \in {Hello, Gone}, c \in {Hello, Denied},
        o \in {Hello, Gone} }

MaxPaths == 3
MaxWorkers == 3

\* Lists of distinct paths
PathLists ==
    UNION { { s \in [1..n -> ReadablePaths] : \A i, j \in 1..n : s[i] = s[j] => i = j } :
            n \in 0..MaxPaths }

InitRead ==
    /\ file_paths \in PathLists
    /\ base_path = BasePath
    /\ max_workers \in 1..MaxWorkers
    /\ max_file_size_bytes \in {1, DefaultMaxFileSizeBytes}
    /\ disk \in Disks
    /\ \A q \in ReadablePaths :
          (\A i \in DOMAIN file_paths : file_paths[i] # q) => disk[q] = Hello
    /\ rpc = "submitting"
    /\ tasks = <<>>
    /\ collected = {}
    /\ file_infos = <<>>
    /\ returned = <<>>
    /\ MatchUnused
    /\ IgnoreUnused
    /\ LegacyUnused
    /\ DiscoveryUnused
    /\ DecodeUnused
    /\ ExecuteUnused

NextRead ==
    \/ ReturnEmpty
    \/ Submit
    \/ \E i \in DOMAIN tasks : Start(i)
    \/ \E i \in DOMAIN tasks : Finish(i)
    \/ \E i \in DOMAIN tasks : Collect(i)
    \/ ReturnSorted

SpecRead == InitRead /\ [][NextRead]_vars

\* The scheduler never leaves every thread that can take a step waiting for
\* ever: the caller's thread (submit, as_completed, the return), a pool
\* thread taking the oldest queued item, or a call of read_file ending.
FairRead == WF_vars(NextRead)

\* One disk on which a read returns text, returns an error record (a file
\* that is gone, a file that may not be opened) and raises (a path outside
\* the base): whether a call ends does not depend on which.
MixedDisk ==
    (PathZ :> Tiny) @@ (PathA :> Gone) @@ (PathC :> Denied) @@ (PathOutside :> Hello)

InitReadFair ==
    /\ InitRead
    /\ max_file_size_bytes = DefaultMaxFileSizeBytes
    /\ \A i \in DOMAIN file_paths : disk[file_paths[i]] = MixedDisk[file_paths[i]]

SpecReadFair == InitReadFair /\ [][NextRead]_vars /\ FairRead

----------------------------------------------------------------------------
(* Specification of the extension matcher: one call on any name and list   *)

InitMatch ==
    /\ file_name \in FileNames
    /\ extensions \in ExtensionLists
    /\ match = [called |-> FALSE, result |-> FALSE]
    /\ IgnoreUnused
    /\ LegacyUnused
    /\ DiscoveryUnused
    /\ ReaderUnused
    /\ DecodeUnused
    /\ ExecuteUnused

Call_matches_extension ==
    /\ ~match.called
    /\ match' = [called |-> TRUE, result |-> _matches_extension(file_name, extensions)]
    /\ UNCHANGED <<file_name, extensions, ivars, lvars, cvars, xvars, envvars, dvars, rargs, rvars>>

NextMatch == Call_matches_extension

SpecMatch == InitMatch /\ [][NextMatch]_vars

----------------------------------------------------------------------------
(* Specification of the ignore engine: one call of should_ignore on any    *)
(* candidate path under any configuration                                  *)

NameBuild == <<"b", "u", "i", "l", "d">>
NamePkg == <<"p", "k", "g">>
NameVendor == <<"v", "e", "n", "d", "o", "r">>
NameVenv == <<".", "v", "e", "n", "v">>

EmptyPattern == <<>>
PatVenv == <<".", "v", "e", "n", "v">>
PatBuildDir == <<"b", "u", "i", "l", "d", "/">>
PatVendor == <<"*", "*", "/", "v", "e", "n", "d", "o", "r", "/", "*", "*">>
PatCsv == <<"*", "*", "/", "*", ".", "c", "s", "v">>
PatStarMd == <<"*", ".", "m", "d">>
PatBStarDir == <<"b", "*", "/">>

\* The files should_ignore is asked about, as paths relative to the root
Candidates ==
    { <<NameAMd>>, <<NameDCsv>>, <<NameSub, NameCMd>>, <<NameSub, NameDCsv>>,
      <<NameBuild, NameXMd>>, <<NameVenv, NameXMd>>, <<NamePkg, NameVendor, NameXMd>> }

FolderPatterns == { EmptyPattern, PatVenv, PatBuildDir, PatVendor }
FilePatterns == { EmptyPattern, PatCsv, PatStarMd }
ExclusionPaths == { RootAbs \o <<NameSub>>, RootAbs \o <<NameAMd>> }

MaxPatterns == 2

\* Lists without repetition of at most MaxPatterns elements of a set
ListsOf(S) ==
    UNION { { l \in [1..n -> S] : \A i, j \in 1..n : l[i] = l[j] => i = j } :
            n \in 0..MaxPatterns }

InitIgnore ==
    /\ candidate \in Candidates
    /\ ignored = [called |-> FALSE, result |-> FALSE]
    /\ global_exclude \in
          { [folders |-> f, files |-> g] :
              f \in ListsOf(FolderPatterns), g \in ListsOf(FilePatterns) }
          \cup GlobalExcludes
          \cup { [folders |-> <<PatBStarDir>>, files |-> <<>>] }
    /\ profile \in
          { [pattern |-> RootAbs, extensions |-> <<ExtMd>>, not_include |-> ni] :
              ni \in ListsOf(ExclusionPaths) }
    /\ tree = {}
    /\ listing = <<>>
    /\ root_kind = "missing"
    /\ fail_at = <<>>
    /\ pc = "idle"
    /\ pending = <<>>
    /\ files = <<>>
    /\ results = <<>>
    /\ raised = <<>>
    /\ ignore_calls = {}
    /\ MatchUnused
    /\ LegacyUnused
    /\ ReaderUnused
    /\ DecodeUnused
    /\ ExecuteUnused

\* ignore_engine.should_ignore(file_path, base_path) with the search root as
\* base_path, as _find_files_in_directory calls it
Call_should_ignore ==
    /\ ~ignored.called
    /\ ignored' = [called |-> TRUE,
                   result |-> should_ignore(profile.pattern \o candidate, profile.pattern,
                                            global_exclude, profile.not_include)]
    /\ UNCHANGED <<candidate, mvars, lvars, cvars, xvars, envvars, dvars, rargs, rvars>>

NextIgnore == Call_should_ignore

SpecIgnore == InitIgnore /\ [][NextIgnore]_vars

----------------------------------------------------------------------------
(* The legacy script concat-notes.py: esta_ignorado                        *)

DotDot == <<".", ".">>

\* os.path.normpath, the loop over the components: '' and '.' are dropped,
\* '..' removes the component before it
RECURSIVE NormComps(_, _, _)
NormComps(comps, new_comps, initial_slashes) ==
    IF comps = <<>> THEN new_comps
    ELSE LET comp == Head(comps)
             rest == Tail(comps)
         IN  IF comp = <<>> \/ comp = <<".">>
             THEN NormComps(rest, new_comps, initial_slashes)
             ELSE IF \/ comp # DotDot
                     \/ ~initial_slashes /\ new_comps = <<>>
                     \/ new_comps # <<>> /\ new_comps[Len(new_comps)] = DotDot
             THEN NormComps(rest, Append(new_comps, comp), initial_slashes)
             ELSE IF new_comps # <<>>
             THEN NormComps(rest, SubSeq(new_comps, 1, Len(new_comps) - 1), initial_slashes)
             ELSE NormComps(rest, new_comps, initial_slashes)

\* os.path.normpath on POSIX (for paths that do not begin with two slashes)
NormPath(s) ==
    IF s = <<>> THEN <<".">>
    ELSE LET initial_slashes == s[1] = "/"
             joined == JoinParts(NormComps(SplitSlash(s), <<>>, initial_slashes))
             path == IF initial_slashes THEN Slash \o joined ELSE joined
         IN  IF path = <<>> THEN <<".">> ELSE path

\* esta_ignorado: the exact match, then str.startswith on every entry
esta_ignorado(ruta, entradas) ==
    LET path == NormPath(ruta)
    IN  \/ path \in entradas
        \/ \E patron \in entradas : StartsWith(path, NormPath(patron))

\* str.strip(): whitespace is removed from both ends
Whitespace == {" ", "\t", "\n", "\r"}

RECURSIVE LStrip(_)
LStrip(s) == IF s # <<>> /\ Head(s) \in Whitespace THEN LStrip(Tail(s)) ELSE s

RECURSIVE RStrip(_)
RStrip(s) ==
    IF s # <<>> /\ s[Len(s)] \in Whitespace THEN RStrip(SubSeq(s, 1, Len(s) - 1)) ELSE s

Strip(s) == LStrip(RStrip(s))

\* for linea in f: the lines are added as they are read, without strip and
\* without normpath.
RECURSIVE LoadLines_raw(_, _)
LoadLines_raw(lines, loaded) ==
    IF lines = <<>> THEN loaded
    ELSE LET linea == Head(lines)
         IN  LoadLines_raw(Tail(lines),
                 IF linea # <<>> /\ ~StartsWith(linea, <<"#">>)
                 THEN loaded \cup {linea} ELSE loaded)

\* for linea in f: linea = linea.strip(); a line that is not empty and does
\* not start with "#" is added as os.path.normpath(linea)
RECURSIVE LoadLines(_, _)
LoadLines(lines, loaded) ==
    IF lines = <<>> THEN loaded
    ELSE LET linea == Strip(Head(lines))
         IN  LoadLines(Tail(lines),
                 IF linea # <<>> /\ ~StartsWith(linea, <<"#">>)
                 THEN loaded \cup {NormPath(linea)} ELSE loaded)

\* cargar_ignorados: the empty set unless <ruta_base>/.notes-ignore exists
cargar_ignorados(file) ==
    IF file.exists THEN LoadLines(file.lines, {}) ELSE {}

StrFoo == <<"f", "o", "o">>
StrFoo2 == <<"f", "o", "o", "2">>
StrBar == <<"b", "a", "r">>

\* Relative paths as os.path.relpath gives them, and entries as
\* cargar_ignorados stores them
RutasRelativas ==
    { JoinParts(parts) :
        parts \in { <<StrFoo>>, <<StrFoo, NameAMd>>, <<StrFoo2>>, <<StrFoo2, NameAMd>>,
                    <<StrBar>>, <<StrBar, NameAMd>>, <<StrBar, StrFoo>>, <<NameAMd>>,
                    <<NameZMd>> } }
Entradas ==
    { JoinParts(parts) : parts \in { <<StrFoo>>, <<StrBar, NameAMd>>, <<NameAMd>>, <<StrBar>> } }

MaxEntradas == 2

\* Lines of a .notes-ignore file as iteration over the file gives them: with
\* the newline, but for a last line that has none
Lineas ==
    { <<"f", "o", "o", "\n">>, <<"\n">>, <<" ", "\t", "\n">>, <<"#", "x", "\n">>,
      <<" ", "#", " ", "c", "\n">>, <<" ", "b", "a", "r", "/", " ", "\n">>,
      <<".", "/", "f", "o", "o", "\n">>, <<"a", "#", "b">> }

MaxLineas == 2

NotesIgnoreFiles ==
    { [exists |-> FALSE, lines |-> <<>>] } \cup
    { [exists |-> TRUE, lines |-> l] :
        l \in UNION { [1..n -> Lineas] : n \in 0..MaxLineas } }

InitLegacy ==
    /\ path_relativo \in RutasRelativas
    /\ ignorados \in { e \in SUBSET Entradas : Cardinality(e) <= MaxEntradas }
    /\ legacy = [called |-> FALSE, result |-> FALSE]
    /\ notes_ignore \in NotesIgnoreFiles
    /\ cargados = [called |-> FALSE, result |-> {}]
    /\ MatchUnused
    /\ IgnoreUnused
    /\ DiscoveryUnused
    /\ ReaderUnused
    /\ DecodeUnused
    /\ ExecuteUnused

\* if not esta_ignorado(ruta_relativa, ignorados)
Call_esta_ignorado ==
    /\ ~legacy.called
    /\ legacy' = [called |-> TRUE, result |-> esta_ignorado(path_relativo, ignorados)]
    /\ UNCHANGED <<path_relativo, ignorados, notes_ignore, cargados, mvars, ivars, cvars, xvars, envvars, dvars, rargs, rvars>>

\* ignorados = cargar_ignorados(ruta_base)
Call_cargar_ignorados ==
    /\ ~cargados.called
    /\ cargados' = [called |-> TRUE, result |-> cargar_ignorados(notes_ignore)]
    /\ UNCHANGED <<path_relativo, ignorados, legacy, notes_ignore, mvars, ivars, cvars, xvars, envvars, dvars, rargs, rvars>>

NextLegacy == Call_esta_ignorado \/ Call_cargar_ignorados

SpecLegacy == InitLegacy /\ [][NextLegacy]_vars

----------------------------------------------------------------------------
(* FastFileContentReader._read_file_content                                *)
(* Bytes are numbers 0..255, a decoded text is its sequence of code points *)

DecodeFails == [ok |-> FALSE, text |-> <<>>]
Decodes(text) == [ok |-> TRUE, text |-> text]

\* bytes.decode('utf-8'), strict: one to four bytes per code point, no
\* overlong forms, no surrogates, nothing above U+10FFFF
RECURSIVE Utf8Decode(_)
Utf8Decode(bs) ==
    IF bs = <<>> THEN Decodes(<<>>)
    ELSE LET b1 == bs[1]
             Cont(k) == k <= Len(bs) /\ bs[k] >= 128 /\ bs[k] <= 191
             n == IF b1 < 128 THEN 1
                  ELSE IF b1 >= 194 /\ b1 <= 223 THEN 2
                  ELSE IF b1 >= 224 /\ b1 <= 239 THEN 3
                  ELSE IF b1 >= 240 /\ b1 <= 244 THEN 4
                  ELSE 0
             wellformed ==
                 \/ n = 1
                 \/ n = 2 /\ Cont(2)
                 \/ /\ n = 3 /\ Cont(2) /\ Cont(3)
                    /\ b1 = 224 => bs[2] >= 160
                    /\ b1 = 237 => bs[2] <= 159
                 \/ /\ n = 4 /\ Cont(2) /\ Cont(3) /\ Cont(4)
                    /\ b1 = 240 => bs[2] >= 144
                    /\ b1 = 244 => bs[2] <= 143
             code_point ==
                 IF n = 1 THEN b1
                 ELSE IF n = 2 THEN (b1 - 192) * 64 + (bs[2] - 128)
                 ELSE IF n = 3
                      THEN (b1 - 224) * 4096 + (bs[2] - 128) * 64 + (bs[3] - 128)
                 ELSE (b1 - 240) * 262144 + (bs[2] - 128) * 4096
                          + (bs[3] - 128) * 64 + (bs[4] - 128)
         IN  IF ~wellformed THEN DecodeFails
             ELSE LET rest == Utf8Decode(SubSeq(bs, n + 1, Len(bs)))
                  IN  IF rest.ok THEN Decodes(<<code_point>> \o rest.text)
                      ELSE DecodeFails

\* 'utf-8-sig': a leading byte order mark EF BB BF is dropped
Utf8SigDecode(bs) ==
    IF Len(bs) >= 3 /\ SubSeq(bs, 1, 3) = <<239, 187, 191>>
    THEN Utf8Decode(SubSeq(bs, 4, Len(bs)))
    ELSE Utf8Decode(bs)

\* 'latin1': every byte is its own code point; no byte fails
Latin1Decode(bs) == Decodes(bs)

\* 'cp1252': the code points of the bytes 128..159 (0: the byte is undefined
\* and fails); every other byte is its own code point
Cp1252High ==
    << 8364, 0, 8218, 402, 8222, 8230, 8224, 8225, 710, 8240, 352, 8249, 338, 0, 381, 0,
       0, 8216, 8217, 8220, 8221, 8226, 8211, 8212, 732, 8482, 353, 8250, 339, 0, 382, 376 >>

Cp1252Decode(bs) ==
    IF \E k \in DOMAIN bs : bs[k] >= 128 /\ bs[k] <= 159 /\ Cp1252High[bs[k] - 127] = 0
    THEN DecodeFails
    ELSE Decodes([k \in DOMAIN bs |->
                    IF bs[k] >= 128 /\ bs[k] <= 159 THEN Cp1252High[bs[k] - 127]
                    ELSE bs[k]])

\* open(file_path, 'r', encoding=encoding) ... f.read()
Decode(encoding, bs) ==
    CASE encoding = "utf-8" -> Utf8Decode(bs)
      [] encoding = "utf-8-sig" -> Utf8SigDecode(bs)
      [] encoding = "latin1" -> Latin1Decode(bs)
      [] encoding = "cp1252" -> Cp1252Decode(bs)

DecodedText(text) == [kind |-> "text", text |-> text]
UndecodablePlaceholder == [kind |-> "undecodable", text |-> <<>>]

\* Latin-1 is tried before UTF-8.
encodings_latin1_first == <<"latin1", "utf-8", "utf-8-sig", "cp1252">>

\* encodings = ['utf-8', 'utf-8-sig', 'latin1', 'cp1252']
encodings == <<"utf-8", "utf-8-sig", "latin1", "cp1252">>

\* for encoding in encodings: try ... return f.read() / except
\* UnicodeDecodeError: continue; after the loop the placeholder
RECURSIVE ReadLoop(_, _, _)
ReadLoop(bs, remaining, tried) ==
    IF remaining = <<>>
    THEN [called |-> TRUE, tried |-> tried, content |-> UndecodablePlaceholder]
    ELSE LET attempt == Decode(Head(remaining), bs)
         IN  IF attempt.ok
             THEN [called |-> TRUE, tried |-> Append(tried, Head(remaining)),
                   content |-> DecodedText(attempt.text)]
             ELSE ReadLoop(bs, Tail(remaining), Append(tried, Head(remaining)))

\* _read_file_content
_read_file_content(bs) == ReadLoop(bs, encodings, <<>>)

\* The bytes files are made of: 'h', the two bytes of UTF-8 'e acute', the
\* Latin-1 'e acute', a byte Windows-1252 leaves undefined, the three
\* bytes of the byte order mark
FileBytes == {104, 195, 169, 233, 129, 239, 187, 191}

MaxBytes == 3

InitDecode ==
    /\ raw \in UNION { [1..n -> FileBytes] : n \in 0..MaxBytes }
    /\ decoded = [called |-> FALSE, tried |-> <<>>, content |-> <<>>]
    /\ ExecuteUnused
    /\ MatchUnused
    /\ IgnoreUnused
    /\ LegacyUnused
    /\ DiscoveryUnused
    /\ ReaderUnused

\* content = self._read_file_content(file_path)
Call_read_file_content ==
    /\ ~decoded.called
    /\ decoded' = _read_file_content(raw)
    /\ UNCHANGED <<raw, mvars, ivars, lvars, xvars, envvars, dvars, rargs, rvars>>

NextDecode == Call_read_file_content

SpecDecode == InitDecode /\ [][NextDecode]_vars

----------------------------------------------------------------------------
(* ConcatenateProjectUseCase.execute                                       *)

\* Optional arguments: <<>> is None, <<v>> is the value v
None == <<>>
Some(v) == <<v>>

\* discover_files as one call, when no entry raises: the files rglob yields
\* that pass the extension test and the ignore test, in rglob's order
RECURSIVE ScanDirectory(_, _, _, _)
ScanDirectory(entries, prof, t, exclude) ==
    IF entries = <<>> THEN <<>>
    ELSE LET entry == Head(entries)
             file_path == prof.pattern \o entry
             rest == ScanDirectory(Tail(entries), prof, t, exclude)
         IN  IF /\ entry \in t
                /\ _matches_extension(entry[Len(entry)], prof.extensions)
                /\ ~should_ignore(file_path, prof.pattern, exclude, prof.not_include)
             THEN <<file_path>> \o rest
             ELSE rest

DiscoverFiles(prof) ==
    IF root_kind = "dir" THEN ScanDirectory(RGlob(tree, listing), prof, tree, global_exclude)
    ELSE <<>>

\* _get_profile: the named profile, or the first one when no name is given;
\* 0 when the project has no profile of that name (ValueError)
ProfileIndex(profile_name) ==
    IF profile_name = None THEN 1
    ELSE IF \E i \in DOMAIN profiles : profiles[i].name = profile_name[1]
         THEN CHOOSE i \in DOMAIN profiles : profiles[i].name = profile_name[1]
         ELSE 0

\* if extensions_override: profile.extensions = extensions_override, on the
\* profile object the configuration holds
override_stored(stored, idx, extensions_override) ==
    IF extensions_override # None /\ extensions_override[1] # <<>>
    THEN [stored EXCEPT ![idx].extensions = extensions_override[1]]
    ELSE stored

\* execute goes on to read and write also when nothing was discovered.
returns_empty_result_never(discovered) == FALSE

\* if not discovered_files: return ConcatenationResult(..., total_files=0, ...)
returns_empty_result(discovered) == discovered = <<>>

\* ConcatenationResult(files_processed=[], total_files=0, ...) of line 68
EmptyResult == [total_files |-> 0, files_processed |-> <<>>]

\* How a call of execute ended: result is None when the call raised;
\* searched tells whether the call came to discover_files
Execution(name, out, override, idx, searched, used, discovered, outcome, result, read, before, after) ==
    [profile_name |-> name, output_file |-> out, extensions_override |-> override,
     idx |-> idx, searched |-> searched, extensions_used |-> used,
     discovered |-> discovered, outcome |-> outcome, result |-> result,
     files_read |-> read, output_before |-> before, output_after |-> after]

MaxExecutions == 2

\* execute(project_name, profile_name, output_file, extensions_override)
execute(profile_name, output_file, extensions_override) ==
    /\ Len(executions) < MaxExecutions
    /\ LET idx == ProfileIndex(profile_name)
       IN  IF idx = 0
           THEN \* _get_profile raises ValueError
                /\ executions' = Append(executions,
                      Execution(profile_name, output_file, extensions_override, idx, FALSE,
                                <<>>, <<>>, "ValueError", None, {}, output_on_disk,
                                output_on_disk))
                /\ UNCHANGED <<profiles, output_on_disk>>
           ELSE LET stored == override_stored(profiles, idx, extensions_override)
                    prof == stored[idx]
                    discovered == DiscoverFiles(prof)
                IN  /\ profiles' = stored
                    /\ UNCHANGED output_on_disk
                    /\ executions' = Append(executions,
                          IF output_file = None
                          THEN \* _determine_output_path: ProjectConfiguration has
                               \* no output_directory, AttributeError at line 155
                               Execution(profile_name, output_file, extensions_override,
                                         idx, FALSE, <<>>, <<>>, "AttributeError", None, {},
                                         output_on_disk, output_on_disk)
                          ELSE IF returns_empty_result(discovered)
                          THEN Execution(profile_name, output_file, extensions_override,
                                         idx, TRUE, prof.extensions, discovered, "returned",
                                         Some(EmptyResult), {}, output_on_disk,
                                         output_on_disk)
                          ELSE \* the arguments of read_files_parallel: Project has
                               \* no expanded_base_paths, AttributeError at line 83,
                               \* before any file is read or written
                               Execution(profile_name, output_file, extensions_override,
                                         idx, TRUE, prof.extensions, discovered,
                                         "AttributeError", None, {}, output_on_disk,
                                         output_on_disk))
    /\ UNCHANGED <<configured, mvars, ivars, lvars, cvars, envvars, dvars, rargs, rvars>>

\* The project's profiles, the output path and the arguments of the calls
StoredProfiles ==
    << [name |-> "docs", pattern |-> RootAbs, extensions |-> <<ExtMd>>, not_include |-> <<>>],
       [name |-> "data", pattern |-> RootAbs, extensions |-> <<ExtCsv>>, not_include |-> <<>>] >>
OutPath == Cwd \o <<NameOMd>>
ProfileNames == {None, Some("docs"), Some("data"), Some("none")}
OutputFiles == {None, Some(OutPath)}
ExtensionOverrides == {None, Some(<<>>), Some(<<ExtCsv>>)}
ExecuteTrees == SUBSET { <<NameAMd>>, <<NameDCsv>> }

InitExecute ==
    /\ profiles = StoredProfiles
    /\ configured = StoredProfiles
    /\ output_on_disk \in {"", "earlier run"}
    /\ executions = <<>>
    /\ tree \in ExecuteTrees
    /\ listing \in Listings(tree)
    /\ root_kind \in {"missing", "dir"}
    /\ root_kind # "dir" => tree = {}
    /\ fail_at = <<>>
    /\ profile = [pattern |-> RootAbs, extensions |-> <<>>, not_include |-> <<>>]
    /\ global_exclude \in GlobalExcludes
    /\ pc = "idle"
    /\ pending = <<>>
    /\ files = <<>>
    /\ results = <<>>
    /\ raised = <<>>
    /\ ignore_calls = {}
    /\ MatchUnused
    /\ IgnoreUnused
    /\ LegacyUnused
    /\ ReaderUnused
    /\ DecodeUnused

NextExecute ==
    \E profile_name \in ProfileNames, output_file \in OutputFiles,
       extensions_override \in ExtensionOverrides :
        execute(profile_name, output_file, extensions_override)

SpecExecute == InitExecute /\ [][NextExecute]_vars

----------------------------------------------------------------------------
(* Properties of discovery                                                 *)

\* The path of a returned file relative to the search root, as a string
RelStr(path) == JoinParts(RelativeTo(path, profile.pattern))

SortedByRelStr(list) ==
    \A i, j \in DOMAIN list : i < j => StrLess(RelStr(list[i]), RelStr(list[j]))

(* C1: every list discover_files returns is sorted ascending by path       *)
(* relative to the root and holds no relative path twice.                  *)
C1_SortedNoDuplicates ==
    \A r \in DOMAIN results :
        /\ \A i, j \in DOMAIN results[r] :
              i < j => StrLessEq(RelStr(results[r][i]), RelStr(results[r][j]))
        /\ \A i, j \in DOMAIN results[r] :
              RelStr(results[r][i]) = RelStr(results[r][j]) => i = j

(* C2: no returned file has an ancestor directory below the root whose     *)
(* bare name is in the built-in skip-set.                                  *)
C2_SkipSetDirsPruned ==
    \A r \in DOMAIN results : \A i \in DOMAIN results[r] :
        LET rel == RelativeTo(results[r][i], profile.pattern)
        IN  \A k \in 1..(Len(rel) - 1) : rel[k] \notin carpetas_ignoradas

(* C5: no returned file has an absolute path equal to or below a path of   *)
(* the profile's not_include list.                                         *)
C5_ProfileExclusionsExcluded ==
    \A r \in DOMAIN results : \A i \in DOMAIN results[r] :
        \A e \in DOMAIN profile.not_include :
            ~IsRelativeTo(Absolute(results[r][i]), profile.not_include[e])

(* C10: two calls of discover_files with the same project and profile on   *)
(* an unchanged tree return the same paths in the same order.              *)
C10_RerunSameOutput ==
    \A r1, r2 \in DOMAIN results : results[r1] = results[r2]

C10_Witness ==
    /\ Len(results) = 2
    /\ Len(results[1]) >= 2
    /\ ~SortedByRelStr(results[1])

(* C13: with a search root that does not exist, discover_files returns    *)
(* the empty list and raises nothing.                                      *)
C13_MissingRootReturnsEmpty ==
    root_kind = "missing" =>
        /\ raised = <<>>
        /\ pc = "idle"
        /\ \A r \in DOMAIN results : results[r] = <<>>

C13_Witness ==
    root_kind = "missing" /\ Len(results) = MaxRuns

(* C14: with a search root that exists but is a regular file, every call   *)
(* of discover_files ends by raising an error; none returns a list.        *)
C14_FileRootRaises ==
    root_kind = "file" => results = <<>>

\* The regular files of the tree that pass the extension test and the
\* ignore test, as discover_files names them
Qualifying ==
    { profile.pattern \o p :
        p \in { q \in tree :
                  /\ _matches_extension(q[Len(q)], profile.extensions)
                  /\ ~should_ignore(profile.pattern \o q, profile.pattern,
                                    global_exclude, profile.not_include) } }

Returned_files(r) == { results[r][i] : i \in DOMAIN results[r] }

(* C19: discover_files returns exactly the regular files under the root    *)
(* that pass _matches_extension and that should_ignore does not ignore:    *)
(* every returned path passes both tests, and no file that passes both     *)
(* (and can be examined) is missing.                                       *)
C19_ExactlyTheQualifyingFiles ==
    \A r \in DOMAIN results :
        /\ Returned_files(r) \subseteq Qualifying
        /\ Qualifying \ {profile.pattern \o fail_at} \subseteq Returned_files(r)

(* C20: when examining one entry raises an error during the scan,          *)
(* discover_files raises nothing and still returns every other qualifying  *)
(* file, those after the failing entry included.                           *)
C20_ScanErrorKeepsResultComplete ==
    fail_at # <<>> =>
        /\ raised = <<>>
        /\ \A r \in DOMAIN results :
              \A f \in Qualifying : f # profile.pattern \o fail_at => f \in Returned_files(r)

(* C24: in the scan the extension test precedes the ignore test:           *)
(* should_ignore is never invoked for a file that _matches_extension       *)
(* rejected.                                                               *)
C24_ExtensionTestFirst ==
    \A f \in ignore_calls :
        LET rel == RelativeTo(f, profile.pattern)
        IN  rel \in tree /\ _matches_extension(rel[Len(rel)], profile.extensions)

C24_Witness ==
    /\ pc = "idle"
    /\ results # <<>>
    /\ fail_at = <<>>
    /\ ignore_calls # {}
    /\ \E q \in tree : ~_matches_extension(q[Len(q)], profile.extensions)

(* C27: with an empty extension list _matches_extension is false for      *)
(* every file name, with or without a suffix, and discover_files returns   *)
(* the empty list for any tree.                                            *)
C27_EmptySpecMatchesNothing ==
    profile.extensions = <<>> =>
        /\ \A name \in FileNames \cup { q[Len(q)] : q \in tree } :
              ~_matches_extension(name, profile.extensions)
        /\ \A r \in DOMAIN results : results[r] = <<>>
        /\ files = <<>>

C27_Witness ==
    /\ profile.extensions = <<>>
    /\ root_kind = "dir"
    /\ Cardinality(tree) >= 2
    /\ fail_at = <<>>
    /\ results # <<>>

----------------------------------------------------------------------------
(* Properties of the parallel reader                                       *)

\* Reading the file at position k of file_paths raises a filesystem error:
\* stat fails, or the file is within the ceiling and open fails
FilesystemError(k) ==
    LET file == disk[file_paths[k]]
    IN  \/ file.kind = "gone"
        \/ file.kind = "denied" /\ file.size <= max_file_size_bytes

Oversize(k) ==
    LET file == disk[file_paths[k]]
    IN  file.kind # "gone" /\ file.size > max_file_size_bytes

AllUnderBase == \A k \in DOMAIN file_paths : IsRelativeTo(file_paths[k], base_path)

(* C6: read_files_parallel returns exactly one record per input path,      *)
(* carrying that path's path relative to base_path, for every worker       *)
(* count and also when reads fail.                                         *)
C6_OneRecordPerPath ==
    rpc = "returned" =>
        /\ Len(returned) = Len(file_paths)
        /\ \A k \in DOMAIN file_paths :
              IsRelativeTo(file_paths[k], base_path) =>
                  \E j \in DOMAIN returned :
                      returned[j].relative_path =
                          JoinParts(RelativeTo(file_paths[k], base_path))

(* C7: the returned list is sorted by relative path and is the same list   *)
(* whatever order the tasks completed in: strictly ascending keys over the *)
(* records the inputs determine.                                           *)
C7_SortedWhateverTheCompletionOrder ==
    rpc = "returned" =>
        LET outcomes == { read_file(file_paths[k], base_path, max_file_size_bytes,
                                   disk[file_paths[k]]) : k \in DOMAIN file_paths }
            infos == { o.info : o \in { x \in outcomes : ~x.raised } }
        IN  /\ \A i, j \in DOMAIN returned :
                  i < j => StrLess(returned[i].relative_path, returned[j].relative_path)
            /\ { returned[j] : j \in DOMAIN returned } = infos
            /\ Len(returned) = Cardinality(infos)

C7_Witness ==
    /\ rpc = "returned"
    /\ Len(returned) >= 2
    /\ file_infos # returned

(* C8: a filesystem error while reading one file becomes a placeholder     *)
(* record for that file, and the result still holds the normal records of  *)
(* all other files.                                                        *)
C8_FilesystemErrorsBecomePlaceholders ==
    (rpc = "returned" /\ \E k \in DOMAIN file_paths : FilesystemError(k)) =>
        \A k \in DOMAIN file_paths :
            \E j \in DOMAIN returned :
                /\ returned[j].name = file_paths[k][Len(file_paths[k])]
                /\ returned[j].content = ErrorContent <=> FilesystemError(k)

C16_AtMostWReadsInProgress ==
    Cardinality(TaskIn("running")) <= max_workers

C16_Witness ==
    /\ Len(file_paths) > max_workers
    /\ Cardinality(TaskIn("running")) = max_workers
    /\ TaskIn("queued") # {}

(* C17: read_files_parallel sorts and returns only after every submitted   *)
(* read task has completed; after the sort no record is appended, and the  *)
(* steps of the pool threads never change the result list.                 *)
C17_SortAfterAllTasksDone ==
    /\ [](rpc = "returned" =>
            /\ Len(tasks) = Len(file_paths)
            /\ \A i \in DOMAIN tasks : tasks[i].state = "done"
            /\ collected = DOMAIN tasks)
    /\ [][/\ rpc = "returned" => (file_infos' = file_infos /\ returned' = returned)
          /\ (\E i \in DOMAIN tasks : tasks'[i].state # tasks[i].state) =>
                 file_infos' = file_infos]_vars

C17_Witness ==
    /\ rpc = "returned"
    /\ Len(file_paths) > max_workers
    /\ Len(returned) >= 2

(* C18: when a read task raises an exception that escapes read_file, the   *)
(* call still returns the records of all other files, and the failing file *)
(* is in the result as an error record.                                    *)
C18_EscapedExceptionStillRecorded ==
    rpc = "returned" =>
        \A k \in DOMAIN file_paths :
            \E j \in DOMAIN returned :
                /\ returned[j].name = file_paths[k][Len(file_paths[k])]
                /\ tasks[k].outcome.raised => returned[j].content = ErrorContent
                /\ ~tasks[k].outcome.raised => returned[j] = tasks[k].outcome.info

(* C26: when every call of read_file ends, under fair scheduling           *)
(* read_files_parallel eventually returns, for any number of paths and any *)
(* worker count of at least 1, and every submitted task is eventually      *)
(* started, also when there are more paths than workers.                   *)
C26_EventuallyReturns ==
    <>(/\ rpc = "returned"
       /\ Len(tasks) = Len(file_paths)
       /\ \A i \in DOMAIN tasks : tasks[i].state \notin {"queued"})

C26_Witness ==
    /\ rpc = "returned"
    /\ max_workers = 1
    /\ Len(file_paths) = MaxPaths
    /\ \A i \in DOMAIN file_paths : tasks[i].state = "done"

----------------------------------------------------------------------------
(* C3: with extension spec [".env"], .env, .env.local and .env.production  *)
(* are matched and environment.txt is not.                                 *)
C3_DotEnvFamilyMatches ==
    (match.called /\ extensions = <<ExtEnv>>) =>
        /\ file_name \in {DotEnv, DotEnvLocal, DotEnvProduction} => match.result
        /\ file_name = EnvironmentTxt => ~match.result

(* C4: with extension spec [".md"], matching does not depend on the case   *)
(* of the file name: notes.MD is matched, notes.mdx is not, and any two    *)
(* names that differ only in case get the same answer.                     *)
C4_MdCaseInsensitive ==
    (match.called /\ extensions = <<ExtMd>>) =>
        /\ file_name \in {NotesUpperMD, NotesMixedMd, NotesMd} => match.result
        /\ file_name \in {NotesMdx, NotesUpperMDX} => ~match.result
        /\ \A other \in FileNames :
              Lower(other) = Lower(file_name) =>
                  (_matches_extension(other, extensions) <=> match.result)

C4_Witness ==
    match.called /\ extensions = <<ExtMd>> /\ file_name = NotesUpperMD /\ match.result

(* C21: with extension specs that all begin with a dot, a file whose name  *)
(* does not begin with a dot is matched only if its lowercased suffix      *)
(* equals one of the specs; pyproject.toml is not matched by .py and       *)
(* mdnotes.txt is not matched by .md.                                      *)
C21_OnlyTheSuffixDecides ==
    (/\ match.called
     /\ \A i \in DOMAIN extensions : StartsWith(extensions[i], <<".">>)
     /\ ~StartsWith(file_name, <<".">>)) =>
        /\ match.result =>
              \E i \in DOMAIN extensions : Lower(Suffix(file_name)) = Lower(extensions[i])
        /\ (file_name = PyprojectToml /\ extensions = <<ExtPy>>) => ~match.result
        /\ (file_name = MdnotesTxt /\ extensions = <<ExtMd>>) => ~match.result

----------------------------------------------------------------------------
(* Properties of the ignore engine                                         *)

\* Some rule other than an empty pattern matches the candidate
NonEmptyRuleMatches ==
    LET path_str == JoinParts(candidate)
    IN  \/ \E i \in DOMAIN global_exclude.folders :
              /\ global_exclude.folders[i] # EmptyPattern
              /\ _matches_pattern(path_str, global_exclude.folders[i])
        \/ \E i \in DOMAIN global_exclude.files :
              /\ global_exclude.files[i] # EmptyPattern
              /\ _matches_pattern(path_str, global_exclude.files[i])
        \/ _matches_profile_exclusions(profile.pattern \o candidate, profile.not_include)

(* C11: _matches_pattern is false for the empty pattern on every candidate *)
(* path, and should_ignore never ignores a file that only an empty pattern *)
(* of the global folder or file lists could have matched.                  *)
C11_EmptyPatternNeverMatches ==
    ignored.called =>
        /\ ~_matches_pattern(JoinParts(candidate), EmptyPattern)
        /\ ignored.result => NonEmptyRuleMatches

\* Every order of the elements of a list
Reorderings(list) ==
    { [i \in DOMAIN list |-> list[perm[i]]] : perm \in Perms(DOMAIN list) }

(* C15: should_ignore is true exactly when some global folder pattern,     *)
(* some global file pattern or some profile exclusion path matches; the    *)
(* answer is the same for every order of the patterns and of the exclusion *)
(* paths, and a file that is ignored stays ignored when a rule is added.   *)
C15_AnyRuleInAnyOrder ==
    ignored.called =>
        LET file == profile.pattern \o candidate
            path_str == JoinParts(candidate)
            answer(f, g, ni) ==
                should_ignore(file, profile.pattern, [folders |-> f, files |-> g], ni)
        IN  /\ ignored.result <=>
                  \/ \E i \in DOMAIN global_exclude.folders :
                        _matches_pattern(path_str, global_exclude.folders[i])
                  \/ \E i \in DOMAIN global_exclude.files :
                        _matches_pattern(path_str, global_exclude.files[i])
                  \/ \E i \in DOMAIN profile.not_include :
                        IsRelativeTo(file, profile.not_include[i])
            /\ \A f \in Reorderings(global_exclude.folders) :
               \A g \in Reorderings(global_exclude.files) :
               \A ni \in Reorderings(profile.not_include) :
                   answer(f, g, ni) = ignored.result
            /\ ignored.result =>
                  /\ \A pat \in FolderPatterns \cup FilePatterns :
                        /\ answer(Append(global_exclude.folders, pat),
                                  global_exclude.files, profile.not_include)
                        /\ answer(<<pat>> \o global_exclude.folders,
                                  global_exclude.files, profile.not_include)
                        /\ answer(global_exclude.folders,
                                  Append(global_exclude.files, pat), profile.not_include)
                  /\ \A e \in ExclusionPaths :
                        answer(global_exclude.folders, global_exclude.files,
                               Append(profile.not_include, e))

C15_Witness ==
    /\ ignored.called
    /\ ignored.result
    /\ Len(global_exclude.folders) = 2
    /\ ~_matches_pattern(JoinParts(candidate), global_exclude.folders[1])
    /\ _matches_pattern(JoinParts(candidate), global_exclude.folders[2])
    /\ global_exclude.files = <<>>
    /\ profile.not_include = <<>>

(* C22: for a pattern ending in '/', _matches_pattern is true if and only  *)
(* if some '/'-separated segment of the relative path equals the pattern   *)
(* without its trailing slash, also when the pattern contains a star.      *)
C22_DirectoryRuleBySegmentEquality ==
    ignored.called =>
        \A i \in DOMAIN global_exclude.folders :
            LET pattern == global_exclude.folders[i]
                pattern_clean == SubSeq(pattern, 1, Len(pattern) - 1)
            IN  (pattern # <<>> /\ pattern[Len(pattern)] = "/") =>
                    /\ _matches_pattern(JoinParts(candidate), pattern) <=>
                           \E k \in DOMAIN candidate : candidate[k] = pattern_clean
                    /\ (Len(global_exclude.folders) = 1 /\ global_exclude.files = <<>>
                           /\ profile.not_include = <<>>) =>
                          (ignored.result <=>
                              \E k \in DOMAIN candidate : candidate[k] = pattern_clean)

\* fnmatch of a file's name against the three default file patterns' names
DefaultFileNamePatterns ==
    { <<"*", ".", "m", "i", "n", ".", "j", "s">>, <<"*", ".", "c", "s", "v">>,
      <<"*", ".", "p", "y", "c">> }

(* C23: with the default global file patterns, should_ignore is true for   *)
(* every file whose name matches *.min.js, *.csv or *.pyc, at every depth, *)
(* files directly in the root included.                                    *)
C23_DefaultFilePatternsAtEveryDepth ==
    (ignored.called /\ global_exclude.files = DefaultFiles) =>
        ((\E pat \in DefaultFileNamePatterns : FnMatch(candidate[Len(candidate)], pat))
            => ignored.result)

----------------------------------------------------------------------------
(* Properties of the legacy ignore check                                   *)

(* C12: esta_ignorado ignores a relative path only if it equals a listed   *)
(* entry or a listed entry is a prefix of it on whole path segments: with  *)
(* the entry foo, foo and foo/a.md are ignored, foo2 and foo2/a.md are not.*)
C12_PrefixOnWholeSegments ==
    legacy.called =>
        /\ legacy.result =>
              \E patron \in ignorados :
                  IsRelativeTo(SplitSlash(path_relativo), SplitSlash(patron))
        /\ ignorados = {StrFoo} =>
              /\ path_relativo \in {StrFoo, JoinParts(<<StrFoo, NameAMd>>)} => legacy.result
              /\ path_relativo \in {StrFoo2, JoinParts(<<StrFoo2, NameAMd>>)} => ~legacy.result

(* C28: cargar_ignorados returns exactly the normalized lines of the       *)
(* .notes-ignore file that, after stripping surrounding whitespace, are    *)
(* not blank and do not start with "#", and the empty set when the file    *)
(* does not exist.                                                         *)
C28_ExactlyTheNormalizedEntryLines ==
    cargados.called =>
        LET lines == notes_ignore.lines
            entry == { i \in DOMAIN lines :
                          /\ \E k \in DOMAIN lines[i] : lines[i][k] \notin Whitespace
                          /\ "#" # lines[i][CHOOSE k \in DOMAIN lines[i] :
                                      /\ lines[i][k] \notin Whitespace
                                      /\ \A j \in 1..(k - 1) : lines[i][j] \in Whitespace] }
        IN  /\ ~notes_ignore.exists => cargados.result = {}
            /\ notes_ignore.exists =>
                  /\ cargados.result = { NormPath(Strip(lines[i])) : i \in entry }
                  /\ \A e \in cargados.result :
                        /\ e # <<>>
                        /\ e[1] \notin Whitespace \cup {"#"}
                        /\ e[Len(e)] \notin Whitespace \cup {"/"}
            /\ lines = << <<" ", "b", "a", "r", "/", " ", "\n">>, <<" ", "#", " ", "c", "\n">> >>
                  => cargados.result = {StrBar}

C28_Witness ==
    /\ cargados.called
    /\ notes_ignore.exists
    /\ notes_ignore.lines = << <<".", "/", "f", "o", "o", "\n">>, <<"#", "x", "\n">> >>
    /\ cargados.result = {StrFoo}

----------------------------------------------------------------------------
(* Properties of _read_file_content                                        *)

(* C25: _read_file_content tries UTF-8, UTF-8 with BOM, Latin-1 and        *)
(* Windows-1252 in that order and returns the text of the first one that   *)
(* decodes: an encoding is tried only after every earlier one failed, and  *)
(* the placeholder is returned only if all four failed.                    *)
C25_FirstEncodingThatDecodes ==
    decoded.called =>
        LET order == <<"utf-8", "utf-8-sig", "latin1", "cp1252">>
            last == Len(decoded.tried)
        IN  /\ last \in 1..4
            /\ decoded.tried = SubSeq(order, 1, last)
            /\ \A k \in 1..(last - 1) : ~Decode(order[k], raw).ok
            /\ decoded.content.kind = "text" =>
                  /\ Decode(order[last], raw).ok
                  /\ decoded.content.text = Decode(order[last], raw).text
            /\ decoded.content.kind # "text" =>
                  /\ decoded.content = UndecodablePlaceholder
                  /\ \A k \in 1..4 : ~Decode(order[k], raw).ok

C25_Witness ==
    /\ decoded.called
    /\ decoded.tried = <<"utf-8", "utf-8-sig", "latin1">>
    /\ raw = <<104, 233>>
    /\ decoded.content = DecodedText(<<104, 233>>)

----------------------------------------------------------------------------
(* Properties of ConcatenateProjectUseCase.execute                         *)

(* C29: execute with an extensions override leaves the stored              *)
(* configuration unchanged: the profiles' extension lists stay those of    *)
(* the configuration, and a call without an override searches with the     *)
(* profile's original extensions.                                          *)
C29_OverrideLeavesStoredConfiguration ==
    /\ profiles = configured
    /\ \A k \in DOMAIN executions :
          (/\ executions[k].searched
           /\ executions[k].extensions_override = None) =>
              executions[k].extensions_used = configured[executions[k].idx].extensions

(* C30: a call of execute whose discovery returns no files reads nothing,  *)
(* neither creates nor overwrites the output file, and returns a result    *)
(* with total_files = 0 and an empty files_processed list; an output file  *)
(* of an earlier run is unchanged.                                         *)
C30_EmptyDiscoveryTouchesNothing ==
    \A k \in DOMAIN executions :
        (executions[k].searched /\ executions[k].discovered = <<>>) =>
            /\ executions[k].outcome = "returned"
            /\ executions[k].result # None
            /\ executions[k].result[1].total_files = 0
            /\ executions[k].result[1].files_processed = <<>>
            /\ executions[k].files_read = {}
            /\ executions[k].output_after = executions[k].output_before
            /\ output_on_disk = executions[k].output_before

C30_Witness ==
    /\ output_on_disk = "earlier run"
    /\ tree = {<<NameAMd>>}
    /\ \E k \in DOMAIN executions :
          /\ executions[k].searched
          /\ executions[k].profile_name = Some("data")
          /\ executions[k].discovered = <<>>
          /\ executions[k].outcome = "returned"

====
